---------------------------- MODULE Spec2Model ----------------------------
(***************************************************************************)
(* Slot-window generation and reconciliation of the scheduling API.        *)
(*                                                                         *)
(*   - SlotService.getServiceWindows and generateServiceSlotsDirectly      *)
(*     (lib/services/slot.service.ts) run as concurrent request handlers   *)
(*     against the shared "slots" table: specification Spec, and SeqSpec   *)
(*     for one handler at a time.                                          *)
(*   - buildServiceWindowsFromBaseSlots (lib/services/slot-windows.util.ts)*)
(*     is a pure function: specification BuildSpec.                        *)
(*   - generateServiceSlotsDirectly as a function of its arguments, next   *)
(*     to generateSlotsFromAvailabilities and to the builder on the        *)
(*     15-minute slots of the same rules: GenSpec.                         *)
(*   - The id lookup of getServiceWindows (realSlotIds) as a function of   *)
(*     the rows read and a window: MatchSpec.                              *)
(*   - getAvailableSlots and the GET /professionals/{id}/slots handler,    *)
(*     one call at a time: ApiSpec.                                        *)
(*                                                                         *)
(* Instants are whole minutes since Sunday 00:00 UTC.  A timestamp string  *)
(* is a record [t, f]: the instant it denotes and the ISO serialization it *)
(* is written in, so that two strings are equal only if both agree.        *)
(***************************************************************************)
EXTENDS Integers, Sequences, FiniteSets, TLC

VARIABLES
  slots,             \* the persisted rows of table "slots"
  nextId,            \* the id the store assigns to the next inserted row
  uniqueConstraint,  \* whether the table has UNIQUE (professional_id, start_time)
  now,               \* DateTime.now() (an instant)
  call,              \* per request handler: its position and local variables
  prev,              \* per request handler: its last completed run
  lost,              \* per request handler: instants it inserted in abandoned runs
  bParams,           \* buildServiceWindowsFromBaseSlots: the arguments
  bWindows,          \* buildServiceWindowsFromBaseSlots: the returned windows
  bDone,             \* buildServiceWindowsFromBaseSlots: whether it has returned
  gParams,           \* generateServiceSlotsDirectly: the arguments
  gWindows,          \* generateServiceSlotsDirectly: the returned windows
  gDone,             \* generateServiceSlotsDirectly: whether it has returned
  mArgs,             \* the id lookup of getServiceWindows: rows read and a window
  mResult,           \* the id lookup of getServiceWindows: the map and the window
  mDone,             \* the id lookup of getServiceWindows: whether it has run
  req,               \* a call of the API: the GET handler, or getAvailableSlots
  avail,             \* getAvailableSlots: its position and local variables
  resp,              \* the GET handler's response
  sSlots,            \* generateSlotsFromAvailabilities: the returned slots
  sDone              \* generateSlotsFromAvailabilities: whether it has returned

svcVars == <<slots, nextId, uniqueConstraint, now, call, prev, lost>>
bldVars == <<bParams, bWindows, bDone>>
genVars == <<gParams, gWindows, gDone>>
matchVars == <<mArgs, mResult, mDone>>
apiVars == <<req, avail, resp>>
slotVars == <<sSlots, sDone>>
vars == <<slots, nextId, uniqueConstraint, now, call, prev, lost, bParams, bWindows, bDone,
          gParams, gWindows, gDone, mArgs, mResult, mDone, req, avail, resp, sSlots, sDone>>

---------------------------------------------------------------------------
(* Bounds of the model *)

\* Largest number of rows the table holds before the first request.
MaxInitRows == 2
\* Largest number of base slots handed to buildServiceWindowsFromBaseSlots.
MaxBaseSlots == 3

---------------------------------------------------------------------------
(* Time: luxon's DateTime in a fixed-offset zone *)

MinutesPerDay == 1440
\* 'America/Sao_Paulo' is UTC-03:00 all year (no DST): local = utc + TzOffset.
TzOffset == -180

\* const slotStepMinutes = 15, and params.slotStepMinutes || 15
DefaultSlotStep == 15

\* dt.setZone(timezone): the local wall clock, in minutes since local Sunday 00:00.
ToLocal(t) == t + TzOffset
\* dt.toUTC()
ToUTC(l) == l - TzOffset
\* dt.startOf('day'), as a local day number
LocalDay(l) == l \div MinutesPerDay
\* dt.set({hour, minute, second: 0, millisecond: 0}) on local day d
AtTimeOfDay(d, hm) == d * MinutesPerDay + hm
\* dt.hour * 60 + dt.minute
MinutesSinceMidnight(l) == l % MinutesPerDay
\* dt.weekday: 1 = Monday .. 7 = Sunday (day 0 is a Sunday)
LuxonWeekday(d) == IF d % 7 = 0 THEN 7 ELSE d % 7
\* 'HH:mm' as minutes since midnight: split(':').map(Number)
HHmm(h, m) == h * 60 + m

\* Instants are whole minutes, except "now", which has a seconds part too:
\* a < b and a >= b for a on a whole minute and b = bMinute plus bSecond.
SecondsPerMinute == 60
Earlier(a, bMinute, bSecond) ==
  a * SecondsPerMinute < bMinute * SecondsPerMinute + bSecond
NotEarlier(a, bMinute, bSecond) == ~Earlier(a, bMinute, bSecond)
Later(a, bMinute, bSecond) ==
  a * SecondsPerMinute > bMinute * SecondsPerMinute + bSecond

---------------------------------------------------------------------------
(* Timestamp strings *)

\* The ISO-8601 serializations of an instant the code meets:
\*   "msZ"   2026-01-27T11:00:00.000Z      (luxon toISO, Date.toISOString)
\*   "Z"     2026-01-27T11:00:00Z
\*   "msOff" 2026-01-27T11:00:00.000+00:00
\*   "off"   2026-01-27T11:00:00+00:00     (the store's timestamptz output)
Formats == {"msZ", "Z", "msOff", "off"}

Invalid == -1
Null == [t |-> Invalid, f |-> "null"]

Str(t, f) == [t |-> t, f |-> f]

\* A timestamp string whose instant is sec seconds past the whole minute t.
StrSec(t, sec, f) == [t |-> t, f |-> f, sec |-> sec]
\* dt.second of the DateTime parsed from s
SecondOf(s) == s.sec

\* DateTime.fromISO(s, {zone: 'utc'}): the instant, or an invalid DateTime
FromISO(s) == IF s.f \in Formats THEN s.t ELSE Invalid

\* dt.toUTC().toISO(): null for an invalid DateTime
ToISO(t) == IF t = Invalid THEN Null ELSE Str(t, "msZ")

\* DateTime.fromISO(s, {zone: 'utc'}).toUTC().toISO()
NormalizeISO(s) == ToISO(FromISO(s))

\* s.replace(/\.\d{3}Z$/, 'Z')
WithoutMs(s) == IF s.f = "msZ" THEN Str(s.t, "Z") ELSE s

\* s.replace('Z', '+00:00')
WithOffset(s) ==
  CASE s.f = "msZ" -> Str(s.t, "msOff")
    [] s.f = "Z"   -> Str(s.t, "off")
    [] OTHER       -> s

\* s.replace(/\.\d{3}Z$/, '+00:00')
WithoutMsWithOffset(s) == IF s.f = "msZ" THEN Str(s.t, "off") ELSE s

---------------------------------------------------------------------------
(* Slot ids: a store-assigned id, or `virtual-${slotStartIso}` *)

RealId(n) == [kind |-> "real", n |-> n, ts |-> Null]
VirtualId(s) == [kind |-> "virtual", n |-> 0, ts |-> s]
Undefined == [kind |-> "undefined", n |-> 0, ts |-> Null]

\* id.startsWith('virtual-')
StartsWithVirtual(id) == id.kind = "virtual"

---------------------------------------------------------------------------
(* JS Map<string, string> *)

EmptyMap == << >>
MapSet(m, k, v) == [x \in (DOMAIN m) \cup {k} |-> IF x = k THEN v ELSE m[x]]
MapHas(m, k) == k \in DOMAIN m
MapGet(m, k) == IF k \in DOMAIN m THEN m[k] ELSE Undefined

---------------------------------------------------------------------------
(* Sequences *)

Range(s) == {s[i] : i \in DOMAIN s}

RECURSIVE SelectWhere(_, _)
\* array.filter(keep): keep is a set of positions
SelectWhere(s, keep) ==
  IF s = << >> THEN << >>
  ELSE LET n == Len(s)
           init == SelectWhere(SubSeq(s, 1, n - 1), keep)
       IN IF n \in keep THEN Append(init, s[n]) ELSE init

\* The orders in which a query without ORDER BY may return the rows of S.
RowOrders(S) ==
  {q \in [1..Cardinality(S) -> S] : \A i, j \in DOMAIN q : i # j => q[i] # q[j]}

---------------------------------------------------------------------------
(* generateServiceSlotsDirectly *)

\* Faulty variant: luxon's weekday is used as it is.
DayOfWeekOfLuxon(luxonWeekday) == luxonWeekday

\* dayOfWeek = luxonWeekday === 7 ? 0 : luxonWeekday
DayOfWeek(luxonWeekday) == IF luxonWeekday = 7 THEN 0 ELSE luxonWeekday

\* availabilities.find(av => av.day_of_week === dayOfWeek): the position of the
\* first matching rule, 0 when there is none
FindAvailability(availabilities, dayOfWeek) ==
  LET hits == {i \in DOMAIN availabilities : availabilities[i].day_of_week = dayOfWeek}
  IN IF hits = {} THEN 0 ELSE CHOOSE i \in hits : \A j \in hits : i <= j

\* The lead-time test of a candidate starting at local time slotStart;
\* nowWithLead is nowDt.plus({minutes}) and keeps the seconds of now.
IsFuture(slotStart, nowWithLead, nowSecond) ==
  IF LocalDay(slotStart) = LocalDay(nowWithLead)
  THEN NotEarlier(slotStart, nowWithLead, nowSecond)
  ELSE Later(slotStart, nowWithLead, nowSecond)

\* Faulty variant: the window is one slot step long.
SlotEndAfterStep(slotStart, p) == slotStart + DefaultSlotStep

\* slotEnd = slotStart.plus({ minutes: params.duration })
SlotEnd(slotStart, p) == slotStart + p.duration

\* Faulty variant: the closing time never stops the loop.
PastClosingIgnored(slotEnd, dayClosing) == FALSE

\* if (slotEnd > dayClosing) break
PastClosing(slotEnd, dayClosing) == slotEnd > dayClosing

\* Faulty variant: the loop advances by the slot step.
NextSlotStartAfterStep(slotStart, slotEnd) == slotStart + DefaultSlotStep

\* slotStart = slotEnd
NextSlotStart(slotStart, slotEnd) == slotEnd

RECURSIVE DayLoop(_, _, _, _)
\* while (slotStart < dayEnd) { ... slotStart = slotEnd }, all in local time
DayLoop(slotStart, dayEnd, dayClosing, p) ==
  IF ~(slotStart < dayEnd) THEN << >>
  ELSE
    LET slotEnd == SlotEnd(slotStart, p)
    IN IF PastClosing(slotEnd, dayClosing) THEN << >>
       ELSE
         LET slotStartUtc == ToUTC(slotStart)
             inRange == slotStartUtc >= FromISO(p.from) /\ slotStartUtc <= FromISO(p.to)
             nowWithLead == ToLocal(p.now) + p.minLeadMinutes
             slotStartIso == ToISO(slotStartUtc)
             slotEndIso == ToISO(ToUTC(slotEnd))
             emit == /\ inRange
                     /\ IsFuture(slotStart, nowWithLead, p.nowSecond)
                     /\ slotStartIso # Null
                     /\ slotStartIso \notin p.occupiedStartTimes
                     /\ slotEndIso # Null
             w == [start_time |-> slotStartIso,
                   end_time   |-> slotEndIso,
                   slot_ids   |-> <<VirtualId(slotStartIso)>>]
         IN (IF emit THEN <<w>> ELSE << >>)
              \o DayLoop(NextSlotStart(slotStart, slotEnd), dayEnd, dayClosing, p)

RECURSIVE DaysLoop(_, _, _)
\* while (currentDate <= endDate) { ... currentDate = currentDate.plus({days: 1}) }
DaysLoop(currentDate, endDate, p) ==
  IF ~(currentDate <= endDate) THEN << >>
  ELSE
    LET luxonWeekday == LuxonWeekday(currentDate)
        dayOfWeek == DayOfWeek(luxonWeekday)
        k == FindAvailability(p.availabilities, dayOfWeek)
        today ==
          IF k = 0 THEN << >>
          ELSE LET availability == p.availabilities[k]
                   dayStart == AtTimeOfDay(currentDate, availability.start_time)
                   dayEnd == AtTimeOfDay(currentDate, availability.end_time)
                   dayClosing == AtTimeOfDay(currentDate, p.closingTime)
               IN DayLoop(dayStart, dayEnd, dayClosing, p)
    IN today \o DaysLoop(currentDate + 1, endDate, p)

\* Faulty variant: the day loop stops before the local day of to.
GenerateServiceSlotsBeforeLastDay(p) ==
  IF Len(p.availabilities) = 0 THEN << >>
  ELSE LET fromDt == ToLocal(FromISO(p.from))
           toDt == ToLocal(FromISO(p.to))
       IN DaysLoop(LocalDay(fromDt), LocalDay(toDt) - 1, p)

\* p: [availabilities, duration, from, to, closingTime, occupiedStartTimes,
\*     minLeadMinutes, now, nowSecond]
GenerateServiceSlotsDirectly(p) ==
  IF Len(p.availabilities) = 0 THEN << >>
  ELSE LET fromDt == ToLocal(FromISO(p.from))
           toDt == ToLocal(FromISO(p.to))
       IN DaysLoop(LocalDay(fromDt), LocalDay(toDt), p)

---------------------------------------------------------------------------
(* getServiceWindows: the reconciliation of generated windows with the store *)

RECURSIVE BuildRealSlotIds(_)
\* for (const slot of availableSlots) { realSlotIds.set(...) }
BuildRealSlotIds(availableSlots) ==
  IF availableSlots = << >> THEN EmptyMap
  ELSE
    LET n == Len(availableSlots)
        m == BuildRealSlotIds(SubSeq(availableSlots, 1, n - 1))
        slot == availableSlots[n]
        normalizedTime == NormalizeISO(slot.start_time)
        withoutMs == WithoutMs(normalizedTime)
        m1 == IF normalizedTime # Null THEN MapSet(m, normalizedTime, slot.id) ELSE m
        m2 == IF normalizedTime # Null /\ withoutMs # normalizedTime
              THEN MapSet(m1, withoutMs, slot.id) ELSE m1
    IN MapSet(m2, slot.start_time, slot.id)

\* Faulty variant: only the window's own string is looked up.
LookupRealIdRawOnly(realSlotIds, w) == MapGet(realSlotIds, w.start_time)

\* The id realSlotIds holds for window w under any of the key variants tried.
LookupRealId(realSlotIds, w) ==
  LET normalizedGeneratedTime == NormalizeISO(w.start_time)
      r1 == IF normalizedGeneratedTime # Null
            THEN MapGet(realSlotIds, normalizedGeneratedTime) ELSE Undefined
      r2 == IF normalizedGeneratedTime # Null /\ r1 = Undefined
            THEN MapGet(realSlotIds, WithoutMs(normalizedGeneratedTime)) ELSE r1
      r3 == IF normalizedGeneratedTime # Null /\ r2 = Undefined
            THEN MapGet(realSlotIds, WithOffset(normalizedGeneratedTime)) ELSE r2
      r4 == IF normalizedGeneratedTime # Null /\ r3 = Undefined
            THEN MapGet(realSlotIds, WithoutMsWithOffset(normalizedGeneratedTime)) ELSE r3
  IN IF r4 = Undefined THEN MapGet(realSlotIds, w.start_time) ELSE r4

\* Faulty variant: every window takes an id of the map, whatever its start.
WindowsWithAnyRealId(realSlotIds, windows) ==
  [i \in DOMAIN windows |->
     IF DOMAIN realSlotIds # {}
     THEN [windows[i] EXCEPT
             !.slot_ids = <<realSlotIds[CHOOSE k \in DOMAIN realSlotIds : TRUE]>>]
     ELSE windows[i]]

\* windows.map(w => realId ? {...w, slot_ids: [realId]} : w)
WindowsWithRealIds(realSlotIds, windows) ==
  [i \in DOMAIN windows |->
     LET realId == LookupRealId(realSlotIds, windows[i])
     IN IF realId # Undefined
        THEN [windows[i] EXCEPT !.slot_ids = <<realId>>]
        ELSE windows[i]]

\* w.slot_ids && w.slot_ids.length > 0 && w.slot_ids[0].startsWith('virtual-')
IsVirtual(w) == Len(w.slot_ids) > 0 /\ StartsWithVirtual(w.slot_ids[1])

\* windowsWithRealIds.filter(IsVirtual)
VirtualSlots(windowsWithRealIds) ==
  SelectWhere(windowsWithRealIds,
              {i \in DOMAIN windowsWithRealIds : IsVirtual(windowsWithRealIds[i])})

\* Faulty variant: the rows to create start at the window's end.
SlotsToCreateAtEnd(virtualSlots, params) ==
  [i \in DOMAIN virtualSlots |->
     [professional_id |-> params.professionalId,
      service_id      |-> params.serviceId,
      start_time      |-> virtualSlots[i].end_time,
      end_time        |-> virtualSlots[i].end_time,
      is_available    |-> TRUE]]

\* virtualSlots.map(w => ({professional_id, service_id, start_time, end_time, is_available: true}))
SlotsToCreate(virtualSlots, params) ==
  [i \in DOMAIN virtualSlots |->
     [professional_id |-> params.professionalId,
      service_id      |-> params.serviceId,
      start_time      |-> virtualSlots[i].start_time,
      end_time        |-> virtualSlots[i].end_time,
      is_available    |-> TRUE]]

RECURSIVE BuildExistingSlotIds(_)
\* for (const slot of existingSlots) { existingSlotIds.set(...) }
BuildExistingSlotIds(existingSlots) ==
  IF existingSlots = << >> THEN EmptyMap
  ELSE
    LET n == Len(existingSlots)
        m == BuildExistingSlotIds(SubSeq(existingSlots, 1, n - 1))
        slot == existingSlots[n]
        normalizedTime == NormalizeISO(slot.start_time)
        m1 == IF normalizedTime # Null THEN MapSet(m, normalizedTime, slot.id) ELSE m
    IN MapSet(m1, slot.start_time, slot.id)

\* Faulty variant: the filter keeps every slot, whether it exists or not.
NotExistingIgnored(existingSlotIds, slot) == TRUE

\* The filter of slotsToCreate: true for a slot existingSlotIds does not hold.
NotExisting(existingSlotIds, slot) ==
  LET normalizedTime == NormalizeISO(slot.start_time)
  IN ~(IF normalizedTime # Null
       THEN MapHas(existingSlotIds, normalizedTime)
       ELSE MapHas(existingSlotIds, slot.start_time))

\* slotsToCreate.filter(slot => !existingSlotIds.has(...))
SlotsToInsert(existingSlotIds, slotsToCreate) ==
  SelectWhere(slotsToCreate,
              {i \in DOMAIN slotsToCreate : NotExisting(existingSlotIds, slotsToCreate[i])})

RECURSIVE AllSlotIds(_, _)
\* allSlotIds: the existing ids, then those of createdSlots in order
AllSlotIds(existingSlotIds, createdSlots) ==
  IF createdSlots = << >> THEN existingSlotIds
  ELSE
    LET n == Len(createdSlots)
        m == AllSlotIds(existingSlotIds, SubSeq(createdSlots, 1, n - 1))
        slot == createdSlots[n]
        normalizedTime == NormalizeISO(slot.start_time)
        m1 == IF normalizedTime # Null THEN MapSet(m, normalizedTime, slot.id) ELSE m
    IN MapSet(m1, slot.start_time, slot.id)

\* Faulty variant: the windows are returned without the last rewrite.
RewriteSlotIdsSkipped(allSlotIds, windowsWithRealIds) == windowsWithRealIds

\* The last loop: a window still virtual takes the id allSlotIds holds for it.
RewriteSlotIds(allSlotIds, windowsWithRealIds) ==
  [i \in DOMAIN windowsWithRealIds |->
     LET w == windowsWithRealIds[i]
         normalizedTime == NormalizeISO(w.start_time)
         byNorm == MapGet(allSlotIds, normalizedTime)
         realId == IF normalizedTime # Null /\ byNorm # Undefined
                   THEN byNorm ELSE MapGet(allSlotIds, w.start_time)
     IN IF IsVirtual(w) /\ realId # Undefined
        THEN [w EXCEPT !.slot_ids = <<realId>>]
        ELSE w]

---------------------------------------------------------------------------
(* The store: table "slots" and the tables the service reads *)

\* The value of a timestamptz column or filter operand.
Instant(s) == s.t

\* .gte("start_time", params.from).lte("start_time", params.to)
InRange(r, params) ==
  /\ Instant(r.start_time) >= Instant(params.from)
  /\ Instant(r.start_time) <= Instant(params.to)

\* from("slots").eq("professional_id", ..).eq("is_available", false).gte(..).lte(..)
OccupiedSlotsQuery(S, params) ==
  {r \in S : /\ r.professional_id = params.professionalId
             /\ r.is_available = FALSE
             /\ InRange(r, params)}

\* from("slots").eq("professional_id", ..).eq("is_available", true).gte(..).lte(..)
AvailableSlotsQuery(S, params) ==
  {r \in S : /\ r.professional_id = params.professionalId
             /\ r.is_available = TRUE
             /\ InRange(r, params)}

\* Faulty variant: the existence query without the professional_id filter.
ExistingSlotsQueryAnyProfessional(S, params, startTimes) ==
  {r \in S : \E st \in startTimes : Instant(st) = Instant(r.start_time)}

\* Faulty variant: the existence query looks at available rows only.
ExistingSlotsQueryAvailableOnly(S, params, startTimes) ==
  {r \in S : /\ r.professional_id = params.professionalId
             /\ r.is_available = TRUE
             /\ \E st \in startTimes : Instant(st) = Instant(r.start_time)}

\* from("slots").eq("professional_id", ..).in("start_time", startTimes)
ExistingSlotsQuery(S, params, startTimes) ==
  {r \in S : /\ r.professional_id = params.professionalId
             /\ \E st \in startTimes : Instant(st) = Instant(r.start_time)}

\* Faulty variant: only a repeated key inside the batch is refused.
ViolatesUniqueWithinBatch(S, batch) ==
  \E i, j \in DOMAIN batch :
    /\ i # j
    /\ batch[i].professional_id = batch[j].professional_id
    /\ Instant(batch[i].start_time) = Instant(batch[j].start_time)

\* Whether inserting batch breaks UNIQUE (professional_id, start_time).
ViolatesUnique(S, batch) ==
  \/ \E i \in DOMAIN batch : \E r \in S :
        /\ r.professional_id = batch[i].professional_id
        /\ Instant(r.start_time) = Instant(batch[i].start_time)
  \/ \E i, j \in DOMAIN batch :
        /\ i # j
        /\ batch[i].professional_id = batch[j].professional_id
        /\ Instant(batch[i].start_time) = Instant(batch[j].start_time)

\* The rows .insert(batch).select("id, start_time") adds and returns, in order;
\* f is the serialization the store gives their timestamps.
InsertedRows(batch, firstId, f) ==
  [i \in DOMAIN batch |->
     [id              |-> RealId(firstId + i - 1),
      professional_id |-> batch[i].professional_id,
      service_id      |-> batch[i].service_id,
      start_time      |-> Str(Instant(batch[i].start_time), f),
      end_time        |-> Str(Instant(batch[i].end_time), f),
      is_available    |-> batch[i].is_available]]

\* "pode vir como +00:00 ou .000Z"
StoredFormats == {"off", "msZ"}

\* An optional parameter or column that is not given.
Absent == -1

\* professionals, services and availabilities: read-only to the service
ProfessionalsTable ==
  {[id |-> "p1", company_id |-> "co1"], [id |-> "p2", company_id |-> "co1"],
   [id |-> "p3", company_id |-> "co2"], [id |-> "p4", company_id |-> "co1"]}

\* s2 has no duration_minutes.
ServicesTable ==
  {[id |-> "s1", company_id |-> "co1", duration_minutes |-> 30],
   [id |-> "s2", company_id |-> "co1", duration_minutes |-> Absent]}

Rule(day, start, end) == [day_of_week |-> day, start_time |-> start, end_time |-> end]

\* p1: Monday 09:00-10:00.  p2: no rule.  p3 (another company): Monday
\* 09:00-10:00.  p4: Monday 09:00-12:00, Tuesday 08:00-19:30, Wednesday
\* 10:00-11:00.
AvailabilitiesTable ==
  [pid \in {"p1", "p2", "p3", "p4"} |->
     CASE pid = "p1" -> <<Rule(1, HHmm(9, 0), HHmm(10, 0))>>
       [] pid = "p2" -> << >>
       [] pid = "p3" -> <<Rule(1, HHmm(9, 0), HHmm(10, 0))>>
       [] pid = "p4" -> <<Rule(1, HHmm(9, 0), HHmm(12, 0)),
                          Rule(2, HHmm(8, 0), HHmm(19, 30)),
                          Rule(3, HHmm(10, 0), HHmm(11, 0))>>]

\* availabilityService.getAllAvailabilities(companyId, professionalId)
GetAllAvailabilities(companyId, professionalId) ==
  IF \E r \in ProfessionalsTable : r.id = professionalId /\ r.company_id = companyId
  THEN AvailabilitiesTable[professionalId]
  ELSE << >>

\* serviceService.getServiceById(serviceId, companyId): the rows found
GetServiceById(serviceId, companyId) ==
  {r \in ServicesTable : r.id = serviceId /\ r.company_id = companyId}

---------------------------------------------------------------------------
(* getServiceWindows as a request handler: one action per awaited step *)

Callers == {"c1", "c2"}

\* The characters of the 'HH:mm' string of a time of day, by code order:
\* the digits, and 10 for ':' (which sorts after '9').
TimeString(hm) ==
  <<(hm \div 60) \div 10, (hm \div 60) % 10, 10, (hm % 60) \div 10, (hm % 60) % 10>>

\* a > b on strings: the first differing character decides, a longer string
\* is greater than its prefix.
StringGreater(a, b) ==
  \/ \E i \in (DOMAIN a) \cap (DOMAIN b) :
        /\ a[i] > b[i]
        /\ \A j \in 1..(i - 1) : a[j] = b[j]
  \/ /\ Len(a) > Len(b)
     /\ \A j \in DOMAIN b : a[j] = b[j]

RECURSIVE ReduceMaxEndTime(_, _)
\* availabilities.reduce((max, av) => av.end_time > max ? av.end_time : max,
\*                       availabilities[0].end_time), over the first n rules
ReduceMaxEndTime(availabilities, n) ==
  IF n = 0 THEN availabilities[1].end_time
  ELSE LET max == ReduceMaxEndTime(availabilities, n - 1)
           av == availabilities[n]
       IN IF StringGreater(TimeString(av.end_time), TimeString(max))
          THEN av.end_time ELSE max

\* Faulty variant: the first rule's end_time.
DefaultClosingTimeOfFirstRule(availabilities) ==
  IF Len(availabilities) > 0 THEN availabilities[1].end_time ELSE HHmm(18, 0)

\* The default of closingTime: the largest end_time of the rules, or '18:00'.
DefaultClosingTime(availabilities) ==
  IF Len(availabilities) > 0
  THEN ReduceMaxEndTime(availabilities, Len(availabilities))
  ELSE HHmm(18, 0)

\* The local variables of a handler that has not started.
IdleCall(params) ==
  [pc                 |-> "idle",
   params             |-> params,
   error              |-> "",
   duration           |-> 0,
   closingTime        |-> 0,
   occupiedStartTimes |-> {},
   realSlotIds        |-> EmptyMap,
   windows            |-> << >>,
   windowsWithRealIds |-> << >>,
   existingSlotIds    |-> EmptyMap,
   slotsToInsert      |-> << >>,
   createError        |-> "none",
   createdSlots       |-> << >>,
   slots              |-> << >>]

\* Lines 350-419: verify the professional, fetch the service, settle closingTime.
Start(c) ==
  /\ call[c].pc = "idle"
  /\ LET params == call[c].params
         professional == {r \in ProfessionalsTable :
                            r.id = params.professionalId /\ r.company_id = params.companyId}
         service == GetServiceById(params.serviceId, params.companyId)
         duration == (CHOOSE r \in service : TRUE).duration_minutes
         closingTime == IF params.closingTime = Absent
                        THEN DefaultClosingTime(
                               GetAllAvailabilities(params.companyId, params.professionalId))
                        ELSE params.closingTime
         failed(msg) == [IdleCall(params) EXCEPT !.pc = "failed", !.error = msg]
     IN call' = [call EXCEPT ![c] =
          IF professional = {}
          THEN failed("Professional not found or doesn't belong to company")
          ELSE IF service = {} THEN failed("Service not found")
          ELSE IF duration = Absent THEN failed("Service duration missing")
          ELSE [IdleCall(params) EXCEPT !.pc = "occupied",
                                        !.duration = duration,
                                        !.closingTime = closingTime]]
  /\ UNCHANGED <<slotVars, slots, nextId, uniqueConstraint, now, prev, lost, bldVars, genVars, matchVars, apiVars>>

\* Lines 421-432: occupiedStartTimes, the stored start_time strings as they are.
ReadOccupied(c) ==
  /\ call[c].pc = "occupied"
  /\ LET occupiedSlots == OccupiedSlotsQuery(slots, call[c].params)
     IN call' = [call EXCEPT ![c].pc = "available",
                             ![c].occupiedStartTimes = {r.start_time : r \in occupiedSlots}]
  /\ UNCHANGED <<slotVars, slots, nextId, uniqueConstraint, now, prev, lost, bldVars, genVars, matchVars, apiVars>>

\* Lines 439-475: realSlotIds from the available rows in range.
ReadAvailable(c) ==
  /\ call[c].pc = "available"
  /\ \E availableSlots \in RowOrders(AvailableSlotsQuery(slots, call[c].params)) :
       call' = [call EXCEPT ![c].pc = "generate",
                            ![c].realSlotIds = BuildRealSlotIds(availableSlots)]
  /\ UNCHANGED <<slotVars, slots, nextId, uniqueConstraint, now, prev, lost, bldVars, genVars, matchVars, apiVars>>

\* Lines 495-570: generate the windows and give them the ids realSlotIds holds;
\* with no virtual window left the handler returns (lines 677-709).
Generate(c) ==
  /\ call[c].pc = "generate"
  /\ LET params == call[c].params
         windows == GenerateServiceSlotsDirectly(
                      [availabilities     |-> GetAllAvailabilities(params.companyId,
                                                                   params.professionalId),
                       duration           |-> call[c].duration,
                       from               |-> params.from,
                       to                 |-> params.to,
                       closingTime        |-> call[c].closingTime,
                       occupiedStartTimes |-> call[c].occupiedStartTimes,
                       minLeadMinutes     |-> params.minLeadMinutes,
                       now                |-> now,
                       nowSecond          |-> 0])
         windowsWithRealIds == WindowsWithRealIds(call[c].realSlotIds, windows)
         virtualSlots == VirtualSlots(windowsWithRealIds)
     \* now is on a whole minute that no candidate of the rules starts at
     IN call' = [call EXCEPT ![c].pc = IF Len(virtualSlots) > 0 THEN "existing" ELSE "done",
                             ![c].windows = windows,
                             ![c].windowsWithRealIds = windowsWithRealIds,
                             ![c].slots = IF Len(virtualSlots) > 0 THEN << >>
                                          ELSE windowsWithRealIds]
  /\ UNCHANGED <<slotVars, slots, nextId, uniqueConstraint, now, prev, lost, bldVars, genVars, matchVars, apiVars>>

\* Lines 579-613: the existence query for the virtual windows; with nothing
\* left to insert the handler rewrites the ids and returns (lines 634-709).
ReadExisting(c) ==
  /\ call[c].pc = "existing"
  /\ LET params == call[c].params
         virtualSlots == VirtualSlots(call[c].windowsWithRealIds)
         slotsToCreate == SlotsToCreate(virtualSlots, params)
         startTimes == {virtualSlots[i].start_time : i \in DOMAIN virtualSlots}
     IN \E existingSlots \in RowOrders(ExistingSlotsQuery(slots, params, startTimes)) :
          LET existingSlotIds == BuildExistingSlotIds(existingSlots)
              slotsToInsert == SlotsToInsert(existingSlotIds, slotsToCreate)
          IN call' = [call EXCEPT
               ![c].pc = IF Len(slotsToInsert) > 0 THEN "insert" ELSE "done",
               ![c].existingSlotIds = existingSlotIds,
               ![c].slotsToInsert = slotsToInsert,
               ![c].slots = IF Len(slotsToInsert) > 0 THEN << >>
                            ELSE RewriteSlotIds(AllSlotIds(existingSlotIds, << >>),
                                                call[c].windowsWithRealIds)]
  /\ UNCHANGED <<slotVars, slots, nextId, uniqueConstraint, now, prev, lost, bldVars, genVars, matchVars, apiVars>>

\* What the batch insert does to the store, and what the handler makes of it
\* (lines 615-709): createError is "none", "duplicate" (unique violation) or
\* "unavailable" (any other failure).
InsertOutcome(c, createError, f) ==
  LET createdSlots == IF createError = "none"
                      THEN InsertedRows(call[c].slotsToInsert, nextId, f)
                      ELSE << >>
      insertedSlots == [i \in DOMAIN createdSlots |->
                          [id |-> createdSlots[i].id,
                           start_time |-> createdSlots[i].start_time]]
      allSlotIds == AllSlotIds(call[c].existingSlotIds, insertedSlots)
  IN /\ slots' = slots \cup Range(createdSlots)
     /\ nextId' = nextId + Len(createdSlots)
     /\ call' = [call EXCEPT
          ![c].pc = "done",
          ![c].createError = createError,
          ![c].createdSlots = insertedSlots,
          ![c].slots = RewriteSlotIds(allSlotIds, call[c].windowsWithRealIds)]

\* The batch insert succeeds, or is refused by the unique constraint.
Insert(c) ==
  /\ call[c].pc = "insert"
  /\ IF uniqueConstraint /\ ViolatesUnique(slots, call[c].slotsToInsert)
     THEN InsertOutcome(c, "duplicate", "off")
     ELSE \E f \in StoredFormats : InsertOutcome(c, "none", f)
  /\ UNCHANGED <<slotVars, uniqueConstraint, now, prev, lost, bldVars, genVars, matchVars, apiVars>>

\* The batch insert fails for another reason (the store is unavailable).
InsertFails(c) ==
  /\ call[c].pc = "insert"
  /\ InsertOutcome(c, "unavailable", "off")
  /\ UNCHANGED <<slotVars, uniqueConstraint, now, prev, lost, bldVars, genVars, matchVars, apiVars>>

\* The handler returns its result (or throws) and the request ends.
Return(c) ==
  /\ call[c].pc \in {"done", "failed"}
  /\ call' = [call EXCEPT ![c] = IdleCall(call[c].params)]
  /\ UNCHANGED <<slotVars, slots, nextId, uniqueConstraint, now, prev, lost, bldVars, genVars, matchVars, apiVars>>

\* The request is abandoned (a timeout, a dropped connection): the handler's
\* work is lost, the rows it inserted stay.
Abandon(c) ==
  /\ call[c].pc \in {"occupied", "available", "generate", "existing", "insert", "done"}
  /\ call' = [call EXCEPT ![c] = IdleCall(call[c].params)]
  /\ UNCHANGED <<slotVars, slots, nextId, uniqueConstraint, now, prev, lost, bldVars, genVars, matchVars, apiVars>>

\* Return, with the finished run kept in prev for comparison with the next.
ReturnRecorded(c) ==
  /\ call[c].pc \in {"done", "failed"}
  /\ prev' = [prev EXCEPT ![c] =
       [valid       |-> call[c].pc = "done",
        windows     |-> call[c].windows,
        slots       |-> call[c].slots,
        createError |-> call[c].createError]]
  /\ call' = [call EXCEPT ![c] = IdleCall(call[c].params)]
  /\ UNCHANGED <<slotVars, slots, nextId, uniqueConstraint, now, lost, bldVars, genVars, matchVars, apiVars>>

\* Abandon, with the rows the abandoned run inserted kept in lost.
AbandonRecorded(c) ==
  /\ call[c].pc \in {"occupied", "available", "generate", "existing", "insert", "done"}
  /\ lost' = [lost EXCEPT ![c] = @ \cup Range(call[c].createdSlots)]
  /\ call' = [call EXCEPT ![c] = IdleCall(call[c].params)]
  /\ UNCHANGED <<slotVars, slots, nextId, uniqueConstraint, now, prev, bldVars, genVars, matchVars, apiVars>>

---------------------------------------------------------------------------
(* buildServiceWindowsFromBaseSlots *)

\* Math.ceil(a / b) for a >= 0, b > 0
Ceil(a, b) == (a + b - 1) \div b

\* Faulty variant: the slots are scanned in the order given.
SortSkipped(baseSlots) == baseSlots

RECURSIVE SortByStart(_)
\* [...baseSlots].sort((a, b) => new Date(a.start_time) - new Date(b.start_time)):
\* a stable sort, so slots with equal starts keep their input order
SortByStart(baseSlots) ==
  IF Len(baseSlots) <= 1 THEN baseSlots
  ELSE
    LET n == Len(baseSlots)
        init == SortByStart(SubSeq(baseSlots, 1, n - 1))
        x == baseSlots[n]
        pos == Cardinality({i \in DOMAIN init :
                              FromISO(init[i].start_time) <= FromISO(x.start_time)})
    IN SubSeq(init, 1, pos) \o <<x>> \o SubSeq(init, pos + 1, Len(init))

\* Faulty variant: only the first slot of the group is tested.
FirstNotAvailable(group) == ~group[1].is_available

\* group.some(s => !s.is_available)
SomeNotAvailable(group) == \E j \in DOMAIN group : ~group[j].is_available

\* Faulty variant: a gap longer than the step passes.
ConsecutiveAtLeast(group, slotStepMinutes) ==
  \A j \in 2..Len(group) :
    ToLocal(FromISO(group[j].start_time)) - ToLocal(FromISO(group[j - 1].start_time))
      >= slotStepMinutes

\* The loop over j: each slot starts slotStepMinutes after the previous one.
Consecutive(group, slotStepMinutes) ==
  \A j \in 2..Len(group) :
    LET prevStart == ToLocal(FromISO(group[j - 1].start_time))
        currStart == ToLocal(FromISO(group[j].start_time))
        diffMinutes == currStart - prevStart
    IN diffMinutes = slotStepMinutes

\* The lead-time test: TRUE when the window is rejected.  nowTotalMins is
\* hour * 60 + minute of nowWithLead: its seconds are dropped.
LeadRejects(windowStart, nowWithLead, nowSecond, slotStepMinutes) ==
  IF LocalDay(windowStart) = LocalDay(nowWithLead)
  THEN LET nowTotalMins == MinutesSinceMidnight(nowWithLead)
           rounded == Ceil(nowTotalMins, slotStepMinutes) * slotStepMinutes
           roundedDt == AtTimeOfDay(LocalDay(nowWithLead), rounded)
       IN windowStart < roundedDt
  ELSE Earlier(windowStart, nowWithLead, nowSecond)

\* The closing test: TRUE when the window is rejected.
ClosingRejects(windowStart, windowEnd, closingTime) ==
  LET closeDt == AtTimeOfDay(LocalDay(windowStart), closingTime)
  IN windowEnd > closeDt

\* Faulty variant: the window ends with its last covered slot.
WindowEndOfSlots(windowStart, p) ==
  windowStart + Ceil(p.durationMinutes, p.slotStepMinutes) * p.slotStepMinutes

\* windowEnd = windowStart.plus({ minutes: durationMinutes })
WindowEnd(windowStart, p) == windowStart + p.durationMinutes

\* One turn of the loop over i (1-based): the window pushed, if any.
WindowAt(slots_, i, needed, nowDt, minLead, p) ==
  LET group == SubSeq(slots_, i, i + needed - 1)
      windowStart == ToLocal(FromISO(group[1].start_time))
      windowEnd == WindowEnd(windowStart, p)
      nowWithLead == nowDt + minLead
  IN IF SomeNotAvailable(group) THEN << >>
     ELSE IF ~Consecutive(group, p.slotStepMinutes) THEN << >>
     ELSE IF LeadRejects(windowStart, nowWithLead, SecondOf(p.now), p.slotStepMinutes)
          THEN << >>
     ELSE IF ClosingRejects(windowStart, windowEnd, p.closingTime) THEN << >>
     ELSE <<[start_time |-> ToISO(ToUTC(windowStart)),
             end_time   |-> ToISO(ToUTC(windowEnd)),
             slot_ids   |-> [j \in DOMAIN group |-> group[j].id]]>>

RECURSIVE ScanFromBeforeLast(_, _, _, _, _, _)
\* Faulty variant: the loop stops one position early (i < slots.length - needed).
ScanFromBeforeLast(slots_, i, needed, nowDt, minLead, p) ==
  IF ~(i - 1 < Len(slots_) - needed) THEN << >>
  ELSE WindowAt(slots_, i, needed, nowDt, minLead, p)
         \o ScanFromBeforeLast(slots_, i + 1, needed, nowDt, minLead, p)

RECURSIVE ScanFrom(_, _, _, _, _, _)
\* for (let i = 0; i <= slots.length - needed; i++), from position i on
ScanFrom(slots_, i, needed, nowDt, minLead, p) ==
  IF ~(i - 1 <= Len(slots_) - needed) THEN << >>
  ELSE WindowAt(slots_, i, needed, nowDt, minLead, p)
         \o ScanFrom(slots_, i + 1, needed, nowDt, minLead, p)

\* p: [baseSlots, durationMinutes, slotStepMinutes, now, closingTime, minLeadMinutes]
BuildServiceWindowsFromBaseSlots(p) ==
  LET slots_ == SortByStart(p.baseSlots)
      needed == Ceil(p.durationMinutes, p.slotStepMinutes)
      nowDt == ToLocal(FromISO(p.now))
      minLead == IF p.minLeadMinutes = Absent THEN 0 ELSE p.minLeadMinutes
  IN IF Len(slots_) = 0 THEN << >>
     ELSE ScanFrom(slots_, 1, needed, nowDt, minLead, p)

\* The function is called once with the arguments of bParams.
Build ==
  /\ ~bDone
  /\ bWindows' = BuildServiceWindowsFromBaseSlots(bParams)
  /\ bDone' = TRUE
  /\ UNCHANGED <<slotVars, bParams, svcVars, genVars, matchVars, apiVars>>

---------------------------------------------------------------------------
(* generateServiceSlotsDirectly and the id lookup as functions of their inputs *)

\* generateServiceSlotsDirectly is called once with the arguments of gParams.
GenerateDirectly ==
  /\ ~gDone
  /\ gWindows' = GenerateServiceSlotsDirectly(gParams)
  /\ gDone' = TRUE
  /\ UNCHANGED <<slotVars, gParams, svcVars, bldVars, matchVars, apiVars>>

\* Lines 448-565 for the rows and the window of mArgs: realSlotIds is built
\* and the window looked up in it.
Match ==
  /\ ~mDone
  /\ LET realSlotIds == BuildRealSlotIds(mArgs.availableSlots)
     IN mResult' = [realSlotIds |-> realSlotIds,
                    window      |-> WindowsWithRealIds(realSlotIds, <<mArgs.window>>)[1]]
  /\ mDone' = TRUE
  /\ UNCHANGED <<slotVars, mArgs, svcVars, bldVars, genVars, apiVars>>

---------------------------------------------------------------------------
(* getAvailableSlots and generateSlotsFromAvailabilities *)

\* An absent (undefined) serviceId, and a null service_id column.
NoService == ""
NullService == "null"

RECURSIVE SlotsOfDay(_, _, _)
\* while (slotStart < dayEnd) { ... slotStart = slotEnd }, all in local time
SlotsOfDay(slotStart, dayEnd, p) ==
  IF ~(slotStart < dayEnd) THEN << >>
  ELSE
    LET slotEnd == slotStart + DefaultSlotStep
        slotStartUtc == ToUTC(slotStart)
        inRange == slotStartUtc >= FromISO(p.from) /\ slotStartUtc <= FromISO(p.to)
        slotStartIso == ToISO(slotStartUtc)
        slotEndIso == ToISO(ToUTC(slotEnd))
        slot == [id              |-> VirtualId(slotStartIso),
                 professional_id |-> p.professionalId,
                 service_id      |-> IF p.serviceId # NoService THEN p.serviceId
                                     ELSE NullService,
                 start_time      |-> slotStartIso,
                 end_time        |-> slotEndIso,
                 is_available    |-> TRUE]
    IN (IF inRange /\ slotStartIso # Null /\ slotEndIso # Null THEN <<slot>> ELSE << >>)
         \o SlotsOfDay(slotEnd, dayEnd, p)

RECURSIVE SlotsOfDays(_, _, _, _)
\* while (currentDate <= endDate) { ... currentDate = currentDate.plus({days: 1}) }
SlotsOfDays(currentDate, endDate, availabilities, p) ==
  IF ~(currentDate <= endDate) THEN << >>
  ELSE
    LET luxonWeekday == LuxonWeekday(currentDate)
        dayOfWeek == DayOfWeek(luxonWeekday)
        k == FindAvailability(availabilities, dayOfWeek)
        today ==
          IF k = 0 THEN << >>
          ELSE SlotsOfDay(AtTimeOfDay(currentDate, availabilities[k].start_time),
                          AtTimeOfDay(currentDate, availabilities[k].end_time), p)
    IN today \o SlotsOfDays(currentDate + 1, endDate, availabilities, p)

\* p: [professionalId, serviceId, from, to]
GenerateSlotsFromAvailabilities(availabilities, p) ==
  IF Len(availabilities) = 0 THEN << >>
  ELSE LET fromDt == ToLocal(FromISO(p.from))
           toDt == ToLocal(FromISO(p.to))
       IN SlotsOfDays(LocalDay(fromDt), LocalDay(toDt), availabilities, p)

\* Faulty variant: the query without the service_id filter.
SlotsQueryAnyService(S, params) ==
  {r \in S : /\ r.professional_id = params.professionalId
             /\ r.is_available = TRUE
             /\ InRange(r, params)}

\* from("slots").select("*").eq("professional_id", ..).eq("is_available", true)
\*   .gte(..).lte(..), and .or(service_id.eq.X, service_id.is.null) with a serviceId
SlotsQuery(S, params) ==
  {r \in S : /\ r.professional_id = params.professionalId
             /\ r.is_available = TRUE
             /\ InRange(r, params)
             /\ (params.serviceId # NoService =>
                   r.service_id \in {params.serviceId, NullService})}

\* .order("start_time", {ascending: true}): the orders the rows of S may come in
OrderedByStart(S) ==
  {q \in RowOrders(S) :
     \A i, j \in DOMAIN q : i < j => Instant(q[i].start_time) <= Instant(q[j].start_time)}

\* The local variables of a getAvailableSlots call that has not started.
IdleAvail(params) ==
  [pc |-> "idle", params |-> params, error |-> "", data |-> << >>]

\* Lines 47-56: the professional must belong to the company.
AvailVerify ==
  /\ avail.pc = "idle"
  /\ \/ req.kind = "getAvailableSlots"
     \/ req.kind = "GET" /\ req.serviceId = NoService
  /\ LET params == avail.params
         professional == {r \in ProfessionalsTable :
                            r.id = params.professionalId /\ r.company_id = params.companyId}
     IN avail' = IF professional = {}
                 THEN [avail EXCEPT !.pc = "failed",
                         !.error = "Professional not found or doesn't belong to company"]
                 ELSE [avail EXCEPT !.pc = "query"]
  /\ UNCHANGED <<slotVars, svcVars, bldVars, genVars, matchVars, req, resp>>

\* Lines 59-92: the persisted available rows in range are returned if any.
AvailQuery ==
  /\ avail.pc = "query"
  /\ \E data \in OrderedByStart(SlotsQuery(slots, avail.params)) :
       avail' = IF Len(data) > 0
                THEN [avail EXCEPT !.pc = "done", !.data = data]
                ELSE [avail EXCEPT !.pc = "generate"]
  /\ UNCHANGED <<slotVars, svcVars, bldVars, genVars, matchVars, req, resp>>

\* Lines 100-243: with no row, slots are generated from the rules.
AvailGenerate ==
  /\ avail.pc = "generate"
  /\ LET params == avail.params
         availabilities == GetAllAvailabilities(params.companyId, params.professionalId)
     IN avail' = [avail EXCEPT !.pc = "done",
                               !.data = GenerateSlotsFromAvailabilities(availabilities, params)]
  /\ UNCHANGED <<slotVars, svcVars, bldVars, genVars, matchVars, req, resp>>

\* generateSlotsFromAvailabilities is called once for the rules and the range
\* of gParams.
GenerateSlots ==
  /\ ~sDone
  /\ sSlots' = GenerateSlotsFromAvailabilities(gParams.availabilities,
                  [professionalId |-> "p1", serviceId |-> NoService,
                   from |-> gParams.from, to |-> gParams.to])
  /\ sDone' = TRUE
  /\ UNCHANGED <<svcVars, bldVars, genVars, matchVars, apiVars>>

---------------------------------------------------------------------------
(* GET /api/v1/professionals/{id}/slots *)

NoResponse == [status |-> 0, error |-> "", slots |-> << >>]

\* msg.includes(part), for the messages the services throw
MessageIncludes(msg, part) == msg = part

\* With a serviceId the handler calls getServiceWindows (line 105).
RouteGetServiceWindows ==
  /\ req.kind = "GET"
  /\ req.serviceId # NoService
  /\ resp = NoResponse
  /\ Start("c1")

\* Lines 191-233: the windows are returned, or the error is mapped to a status.
RespondServiceWindows ==
  /\ req.kind = "GET"
  /\ req.serviceId # NoService
  /\ resp = NoResponse
  /\ call["c1"].pc \in {"done", "failed"}
  /\ LET msg == call["c1"].error
     IN resp' =
          IF call["c1"].pc = "done"
          THEN [status |-> 200, error |-> "", slots |-> call["c1"].slots]
          ELSE IF MessageIncludes(msg, "Service not found")
          THEN [status |-> 404, error |-> "Service not found", slots |-> << >>]
          ELSE IF MessageIncludes(msg, "Service duration missing")
          THEN [status |-> 422, error |-> "Service duration is required", slots |-> << >>]
          ELSE [status |-> 500, error |-> "Failed to get slots", slots |-> << >>]
  /\ UNCHANGED <<slotVars, svcVars, bldVars, genVars, matchVars, req, avail>>

\* Lines 236-277: without a serviceId the handler calls getAvailableSlots;
\* what it throws reaches the outer catch.
RespondAvailableSlots ==
  /\ req.kind = "GET"
  /\ req.serviceId = NoService
  /\ resp = NoResponse
  /\ avail.pc \in {"done", "failed"}
  /\ resp' = IF avail.pc = "done"
             THEN [status |-> 200, error |-> "", slots |-> avail.data]
             ELSE [status |-> 500, error |-> avail.error, slots |-> << >>]
  /\ UNCHANGED <<slotVars, svcVars, bldVars, genVars, matchVars, req, avail>>

---------------------------------------------------------------------------
(* Initial states *)

\* Monday 09:00 and 09:30 local time: the two windows of p1's rule for a
\* service of 30 minutes.
W0 == ToUTC(AtTimeOfDay(1, HHmm(9, 0)))
W1 == ToUTC(AtTimeOfDay(1, HHmm(9, 30)))

Row(n, pid, t, len, f, isAvailable) ==
  [id              |-> RealId(n),
   professional_id |-> pid,
   service_id      |-> "s1",
   start_time      |-> Str(t, f),
   end_time        |-> Str(t + len, f),
   is_available    |-> isAvailable]

\* Rows the table may hold before the first request: created by upstream
\* jobs (available) or taken by a booking (is_available = false).
CandidateRows ==
  {Row(1, "p1", W0, 30, "off", TRUE),
   Row(2, "p1", W0, 30, "off", FALSE),
   Row(3, "p1", W0, 30, "msZ", FALSE),
   Row(4, "p1", W0 + 15, 15, "msZ", FALSE),
   Row(5, "p1", W1, 30, "Z", TRUE),
   Row(6, "p2", W0, 30, "off", TRUE)}

\* At most one row per (professional_id, start instant).
OneRowPerInstant(S) ==
  \A r1, r2 \in S :
    (r1.professional_id = r2.professional_id
       /\ Instant(r1.start_time) = Instant(r2.start_time)) => r1 = r2

InitStores ==
  {S \in SUBSET CandidateRows : Cardinality(S) <= MaxInitRows /\ OneRowPerInstant(S)}

Params(from, to) ==
  [professionalId |-> "p1",
   serviceId      |-> "s1",
   from           |-> Str(from, "Z"),
   to             |-> Str(to, "Z"),
   companyId      |-> "co1",
   minLeadMinutes |-> 0,
   closingTime    |-> Absent]

\* Monday 00:00 local .. Monday 09:40 local, and the same range cut at 09:00.
WideRange == Params(ToUTC(AtTimeOfDay(1, 0)), W1 + 10)
ParamChoices == {WideRange, Params(ToUTC(AtTimeOfDay(1, 0)), W0)}

\* Sunday 13:40 local, and Monday 09:10 local (after W0, before W1).
NowChoices == {ToUTC(AtTimeOfDay(0, HHmm(13, 40))), W0 + 10}

\* The seconds of now: on the whole minute, and half a minute past it.
NowSeconds == {0, 30}

NoPrev == [valid |-> FALSE, windows |-> << >>, slots |-> << >>, createError |-> "none"]

\* The builder is not under test in the service's specifications.
BuildIdle ==
  /\ bParams = [baseSlots |-> << >>, durationMinutes |-> 15, slotStepMinutes |-> 15,
                now |-> StrSec(0, 0, "msZ"), closingTime |-> HHmm(18, 0),
                minLeadMinutes |-> Absent]
  /\ bWindows = << >>
  /\ bDone = TRUE

\* The generator is not called on its own.
GenIdle ==
  /\ gParams = [availabilities |-> << >>, duration |-> 30,
                from |-> Str(0, "Z"), to |-> Str(0, "Z"), closingTime |-> HHmm(18, 0),
                occupiedStartTimes |-> {}, minLeadMinutes |-> 0, now |-> 0, nowSecond |-> 0]
  /\ gWindows = << >>
  /\ gDone = TRUE

\* The id lookup is not run on its own.
MatchIdle ==
  /\ mArgs = [availableSlots |-> << >>,
              window |-> [start_time |-> Str(0, "msZ"), end_time |-> Str(0, "msZ"),
                          slot_ids |-> <<VirtualId(Str(0, "msZ"))>>]]
  /\ mResult = [realSlotIds |-> EmptyMap, window |-> mArgs.window]
  /\ mDone = TRUE

\* generateSlotsFromAvailabilities is not called on its own.
SlotsIdle ==
  /\ sSlots = << >>
  /\ sDone = TRUE

\* No call of the API beyond the handlers of getServiceWindows.
ApiIdle ==
  /\ req = [kind |-> "none", professionalId |-> "p1", serviceId |-> "s1",
            companyId |-> "co1", closingTime |-> Absent]
  /\ avail = IdleAvail([professionalId |-> "p1", serviceId |-> NoService,
                        from |-> Str(0, "Z"), to |-> Str(0, "Z"), companyId |-> "co1"])
  /\ resp = NoResponse

\* The service is idle in the builder's specification.
ServiceIdle ==
  /\ slots = {}
  /\ nextId = 1
  /\ uniqueConstraint = TRUE
  /\ now = 0
  /\ call = [c \in Callers |-> IdleCall(WideRange)]
  /\ prev = [c \in Callers |-> NoPrev]
  /\ lost = [c \in Callers |-> {}]

Init ==
  /\ slots \in InitStores
  /\ nextId = Cardinality(CandidateRows) + 1
  /\ uniqueConstraint \in BOOLEAN
  /\ now \in NowChoices
  /\ \E p2 \in ParamChoices :
       call = [c \in Callers |-> IdleCall(IF c = "c1" THEN WideRange ELSE p2)]
  /\ prev = [c \in Callers |-> NoPrev]
  /\ lost = [c \in Callers |-> {}]
  /\ BuildIdle
  /\ GenIdle
  /\ MatchIdle
  /\ ApiIdle
  /\ SlotsIdle

Step(c) ==
  \/ Start(c)
  \/ ReadOccupied(c)
  \/ ReadAvailable(c)
  \/ Generate(c)
  \/ ReadExisting(c)
  \/ Insert(c)
  \/ InsertFails(c)
  \/ Return(c)
  \/ Abandon(c)

Next == \E c \in Callers : Step(c)

\* Concurrent request handlers.
Spec == Init /\ [][Next]_vars

SeqNext ==
  \/ Start("c1")
  \/ ReadOccupied("c1")
  \/ ReadAvailable("c1")
  \/ Generate("c1")
  \/ ReadExisting("c1")
  \/ Insert("c1")
  \/ InsertFails("c1")
  \/ ReturnRecorded("c1")
  \/ AbandonRecorded("c1")

\* One request handler, one request after the other: no concurrent writer.
SeqSpec == Init /\ [][SeqNext]_vars

\* The base slots of the builder: starts on a 15-minute grid from Monday 09:00
\* local, each 15 minutes long, ids by input position.
BaseStarts == {W0, W0 + 15, W0 + 30, W0 + 45}

BaseSlotLists ==
  UNION {[1..n -> BaseStarts \X BOOLEAN] : n \in 0..MaxBaseSlots}

BaseSlotsOf(l) ==
  [i \in DOMAIN l |->
     [id              |-> RealId(i),
      professional_id |-> "p1",
      start_time      |-> Str(l[i][1], "msZ"),
      end_time        |-> Str(l[i][1] + 15, "msZ"),
      is_available    |-> l[i][2]]]

\* <<durationMinutes, slotStepMinutes>>: multiples of the step and not.
DurationAndStep == {<<15, 15>>, <<20, 15>>, <<30, 15>>, <<45, 30>>, <<60, 30>>}

BuildInit ==
  /\ \E l \in BaseSlotLists, ds \in DurationAndStep, n \in NowChoices,
        sec \in NowSeconds, ct \in {HHmm(9, 30), HHmm(18, 0)}, ml \in {Absent, 5} :
       bParams = [baseSlots |-> BaseSlotsOf(l), durationMinutes |-> ds[1],
                  slotStepMinutes |-> ds[2], now |-> StrSec(n, sec, "msZ"),
                  closingTime |-> ct, minLeadMinutes |-> ml]
  /\ bWindows = << >>
  /\ bDone = FALSE
  /\ ServiceIdle
  /\ GenIdle
  /\ MatchIdle
  /\ ApiIdle
  /\ SlotsIdle

BuildNext == Build

\* buildServiceWindowsFromBaseSlots applied to every input of BuildInit.
BuildSpec == BuildInit /\ [][BuildNext]_vars

\* The rule lists handed to generateServiceSlotsDirectly: Monday 09:00-10:00;
\* the same followed by a second Monday rule; Tuesday 09:00-09:45 and Sunday
\* 15:00-15:45; none.
RuleLists ==
  {<<Rule(1, HHmm(9, 0), HHmm(10, 0))>>,
   <<Rule(1, HHmm(9, 0), HHmm(10, 0)), Rule(1, HHmm(8, 0), HHmm(8, 30))>>,
   <<Rule(2, HHmm(9, 0), HHmm(9, 45)), Rule(0, HHmm(15, 0), HHmm(15, 45))>>,
   << >>}

\* <<from, to>>: Sunday 00:00 .. Tuesday 23:59 local, Monday 09:10 .. 09:40,
\* and Sunday 15:00 .. Tuesday 09:00, which starts and ends on a rule's start.
Ranges ==
  {<<ToUTC(AtTimeOfDay(0, 0)), ToUTC(AtTimeOfDay(2, HHmm(23, 59)))>>,
   <<W0 + 10, W1 + 10>>,
   <<ToUTC(AtTimeOfDay(0, HHmm(15, 0))), ToUTC(AtTimeOfDay(2, HHmm(9, 0)))>>}

\* The occupied start times: none, Monday 09:00 as luxon writes it, and as
\* the store writes it.
OccupiedChoices == {{}, {Str(W0, "msZ")}, {Str(W0, "off")}}

\* The 15-minute slots of the same rules and range, as base slots.
BaseSlotsOfRules(availabilities, from, to) ==
  LET generated == GenerateSlotsFromAvailabilities(availabilities,
                     [professionalId |-> "p1", serviceId |-> NoService,
                      from |-> from, to |-> to])
  IN [i \in DOMAIN generated |->
        [id              |-> generated[i].id,
         professional_id |-> generated[i].professional_id,
         start_time      |-> generated[i].start_time,
         end_time        |-> generated[i].end_time,
         is_available    |-> generated[i].is_available]]

\* generateServiceSlotsDirectly on every input drawn here,
\* generateSlotsFromAvailabilities on the same rules and range, and
\* buildServiceWindowsFromBaseSlots on the 15-minute slots of the same rules
\* with the same duration, now, lead time and closing time.
GenInit ==
  /\ \E av \in RuleLists, r \in Ranges, d \in {15, 20, 30, 45},
        ct \in {HHmm(9, 45), HHmm(18, 0)}, ml \in {0, 5, 10},
        n \in NowChoices, sec \in NowSeconds, occ \in OccupiedChoices :
       /\ gParams = [availabilities |-> av, duration |-> d,
                     from |-> Str(r[1], "Z"), to |-> Str(r[2], "Z"),
                     closingTime |-> ct, occupiedStartTimes |-> occ,
                     minLeadMinutes |-> ml, now |-> n, nowSecond |-> sec]
       /\ bParams = [baseSlots |-> BaseSlotsOfRules(av, Str(r[1], "Z"), Str(r[2], "Z")),
                     durationMinutes |-> d, slotStepMinutes |-> DefaultSlotStep,
                     now |-> StrSec(n, sec, "msZ"), closingTime |-> ct,
                     minLeadMinutes |-> ml]
  /\ gWindows = << >>
  /\ gDone = FALSE
  /\ bWindows = << >>
  /\ bDone = FALSE
  /\ sSlots = << >>
  /\ sDone = FALSE
  /\ ServiceIdle
  /\ MatchIdle
  /\ ApiIdle

GenNext ==
  \/ GenerateDirectly
  \/ GenerateSlots
  \/ Build

\* The two window algorithms as functions of the same inputs.
GenSpec == GenInit /\ [][GenNext]_vars

\* A stored start_time that luxon cannot parse.
Unparsable == Str(Invalid, "unparsable")

\* The start_time strings of the rows read: both instants in every
\* serialization, and the unparsable one.
StoredStrings == {Str(t, f) : t \in {W0, W1}, f \in Formats} \cup {Unparsable}

\* The available rows read, in the order they came: ids by position.
AvailableRowLists ==
  UNION {[1..n -> StoredStrings] : n \in 0..MaxInitRows}

MatchInit ==
  /\ \E l \in AvailableRowLists, t \in {W0, W1}, f \in Formats :
       mArgs = [availableSlots |-> [i \in DOMAIN l |->
                                      [id |-> RealId(i), start_time |-> l[i]]],
                window |-> [start_time |-> Str(t, f), end_time |-> Str(t + 30, f),
                            slot_ids |-> <<VirtualId(Str(t, f))>>]]
  /\ mResult = [realSlotIds |-> EmptyMap, window |-> mArgs.window]
  /\ mDone = FALSE
  /\ ServiceIdle
  /\ BuildIdle
  /\ GenIdle
  /\ ApiIdle
  /\ SlotsIdle

MatchNext == Match

\* The id lookup applied to every input of MatchInit.
MatchSpec == MatchInit /\ [][MatchNext]_vars

\* More rows the table may hold: of another service, of no service, of p4.
ApiCandidateRows ==
  CandidateRows \cup
    {[Row(7, "p1", W1, 30, "off", TRUE) EXCEPT !.service_id = "s2"],
     [Row(8, "p1", W0 + 15, 15, "msZ", TRUE) EXCEPT !.service_id = NullService],
     Row(9, "p4", W0, 30, "off", TRUE)}

ApiStores ==
  {S \in SUBSET ApiCandidateRows : Cardinality(S) <= MaxInitRows /\ OneRowPerInstant(S)}

\* The calls: GET with or without serviceId, and getAvailableSlots itself;
\* pX and sX name no professional and no service, p3 is of another company.
Requests ==
  {[kind |-> k, professionalId |-> p, serviceId |-> s, companyId |-> "co1",
    closingTime |-> ct] :
     k \in {"GET", "getAvailableSlots"}, p \in {"p1", "p2", "p3", "p4", "pX"},
     s \in {NoService, "s1", "s2", "sX"}, ct \in {Absent, HHmm(9, 30)}}

ApiInit ==
  /\ slots \in ApiStores
  /\ nextId = Cardinality(ApiCandidateRows) + 1
  /\ uniqueConstraint \in BOOLEAN
  /\ now \in NowChoices
  /\ req \in {r \in Requests : r.kind = "getAvailableSlots" => r.closingTime = Absent}
  /\ call = [c \in Callers |->
               IdleCall(IF c = "c1" /\ req.serviceId # NoService
                        THEN [WideRange EXCEPT !.professionalId = req.professionalId,
                                               !.serviceId = req.serviceId,
                                               !.closingTime = req.closingTime]
                        ELSE WideRange)]
  /\ avail = IdleAvail([professionalId |-> req.professionalId,
                        serviceId |-> IF req.kind = "GET" THEN NoService ELSE req.serviceId,
                        from |-> WideRange.from, to |-> WideRange.to,
                        companyId |-> req.companyId])
  /\ resp = NoResponse
  /\ prev = [c \in Callers |-> NoPrev]
  /\ lost = [c \in Callers |-> {}]
  /\ BuildIdle
  /\ GenIdle
  /\ MatchIdle
  /\ SlotsIdle

ApiNext ==
  \/ RouteGetServiceWindows
  \/ ReadOccupied("c1")
  \/ ReadAvailable("c1")
  \/ Generate("c1")
  \/ ReadExisting("c1")
  \/ Insert("c1")
  \/ InsertFails("c1")
  \/ RespondServiceWindows
  \/ AvailVerify
  \/ AvailQuery
  \/ AvailGenerate
  \/ RespondAvailableSlots

\* One call of the API at a time: the GET handler, or getAvailableSlots.
ApiSpec == ApiInit /\ [][ApiNext]_vars

---------------------------------------------------------------------------
(* Properties of getServiceWindows *)

\* The rows of professional pid that start at the instant of timestamp st.
RowsAt(S, pid, st) ==
  {r \in S : r.professional_id = pid /\ Instant(r.start_time) = Instant(st)}

\* Window w carries the id of a persisted row of pid that starts when w starts.
CarriesPersistedId(w, S, pid) ==
  /\ Len(w.slot_ids) > 0
  /\ \E r \in RowsAt(S, pid, w.start_time) : w.slot_ids[1] = r.id

\* C1: whatever the interleaving of concurrent getServiceWindows calls, the
\* table never holds two rows with the same (professional_id, start instant).
C1_AtMostOneRowPerInstant ==
  \A r1, r2 \in slots :
    (r1.professional_id = r2.professional_id
       /\ Instant(r1.start_time) = Instant(r2.start_time)) => r1.id = r2.id

\* C2: when the batch insert is refused as a duplicate key, the call returns,
\* for every window it tried to insert that a concurrent caller's row now
\* covers, that row's id, and no 'virtual-' id.
C2_DuplicateKeyRecovered ==
  \A c \in Callers :
    (call[c].pc = "done" /\ call[c].createError = "duplicate") =>
      \A i \in DOMAIN call[c].slots :
        LET w == call[c].slots[i]
        IN RowsAt(slots, call[c].params.professionalId, w.start_time) # {}
             => (~IsVirtual(w)
                 /\ CarriesPersistedId(w, slots, call[c].params.professionalId))

C4_ReturnsPersistedIds ==
  \A c \in Callers :
    (call[c].pc = "done" /\ call[c].createError = "none") =>
      \A i \in DOMAIN call[c].slots :
        /\ ~IsVirtual(call[c].slots[i])
        /\ CarriesPersistedId(call[c].slots[i], slots, call[c].params.professionalId)

\* C4 witness: a call returns one window with an inserted row's id and one
\* with the id of a row that was there before.
C4_Witness ==
  \E c \in Callers :
    /\ call[c].pc = "done"
    /\ call[c].createError = "none"
    /\ Len(call[c].createdSlots) = 1
    /\ Len(call[c].slots) = 2
    /\ \E i \in DOMAIN call[c].slots : call[c].slots[i].slot_ids[1] = call[c].createdSlots[1].id

\* C5: a failed batch insert adds no row and the call still returns: the
\* windows of the needs-insert subset keep their virtual id, every other
\* window carries the persisted id it was matched to.
C5_FailedInsertDegrades ==
  [][\A c \in Callers :
       (call[c].pc = "insert" /\ call'[c].pc # "insert") =>
         (call'[c].createError # "none" =>
            /\ call'[c].pc = "done"
            /\ slots' = slots
            /\ Len(call'[c].slots) = Len(call[c].windows)
            /\ \A i \in DOMAIN call'[c].slots :
                 LET w == call'[c].slots[i]
                 IN IF \E j \in DOMAIN call[c].slotsToInsert :
                         call[c].slotsToInsert[j].start_time = w.start_time
                    THEN w.slot_ids = <<VirtualId(w.start_time)>>
                    ELSE /\ ~IsVirtual(w)
                         /\ CarriesPersistedId(w, slots', call[c].params.professionalId))
    ]_vars

\* C5 witness: a call whose insert failed has returned a window with a virtual
\* id next to one with a persisted id.
C5_Witness ==
  \E c \in Callers :
    /\ call[c].pc = "done"
    /\ call[c].createError # "none"
    /\ \E i, j \in DOMAIN call[c].slots :
         IsVirtual(call[c].slots[i]) /\ ~IsVirtual(call[c].slots[j])

C8_NoWindowOnUnavailableTime ==
  \A c \in Callers :
    call[c].pc = "done" =>
      \A r \in OccupiedSlotsQuery(slots, call[c].params) :
        \A i \in DOMAIN call[c].slots :
          LET w == call[c].slots[i]
          IN /\ Instant(w.start_time) # Instant(r.start_time)
             /\ ~(/\ Instant(w.start_time) < Instant(r.end_time)
                  /\ Instant(r.start_time) < Instant(w.end_time))

---------------------------------------------------------------------------
(* Properties of buildServiceWindowsFromBaseSlots *)

\* The base slot of the call with the given id (ids are distinct).
BaseSlot(id) == CHOOSE b \in Range(bParams.baseSlots) : b.id = id

\* needed, for the arguments of the call
Needed == Ceil(bParams.durationMinutes, bParams.slotStepMinutes)

\* The start positions i (1-based, in start order) of the emitted windows.
EmittedPositions ==
  LET sorted == SortByStart(bParams.baseSlots)
  IN {i \in DOMAIN sorted : \E k \in DOMAIN bWindows : bWindows[k].slot_ids[1] = sorted[i].id}

\* C7: no emitted window covers a base slot with is_available = false: with an
\* unavailable slot at sorted position k, no window starts at a position i
\* with i <= k < i + needed.
C7_NoUnavailableSlotCovered ==
  bDone =>
    /\ \A k \in DOMAIN bWindows :
         \A j \in DOMAIN bWindows[k].slot_ids :
           BaseSlot(bWindows[k].slot_ids[j]).is_available
    /\ LET sorted == SortByStart(bParams.baseSlots)
       IN \A u \in DOMAIN sorted :
            ~sorted[u].is_available =>
              \A i \in EmittedPositions : ~(i <= u /\ u < i + Needed)

\* C7 witness: windows of two slots are emitted from a list that holds an
\* unavailable slot.
C7_Witness ==
  /\ bDone
  /\ Needed = 2
  /\ Len(bWindows) > 0
  /\ \E b \in Range(bParams.baseSlots) : ~b.is_available

\* C9: in every emitted window, consecutive covered slots start exactly
\* slotStepMinutes apart in local time: no gap, no repeated start.
C9_CoveredSlotsContiguous ==
  bDone =>
    \A k \in DOMAIN bWindows :
      \A j \in 2..Len(bWindows[k].slot_ids) :
        ToLocal(FromISO(BaseSlot(bWindows[k].slot_ids[j]).start_time))
          - ToLocal(FromISO(BaseSlot(bWindows[k].slot_ids[j - 1]).start_time))
          = bParams.slotStepMinutes

\* C9 witness: a window of two slots is emitted from a list of three slots in
\* which two starts are not one step apart.
C9_Witness ==
  /\ bDone
  /\ Len(bWindows) > 0
  /\ Len(bWindows[1].slot_ids) = 2
  /\ \E a, b \in Range(bParams.baseSlots) :
       /\ a.id # b.id
       /\ a.is_available /\ b.is_available
       /\ FromISO(b.start_time) - FromISO(a.start_time) \in {0, 30}

\* C10 as stated: every window has needed slot ids, starts at its first
\* covered slot's start and ends at its last covered slot's end, so that
\* end_time - start_time = needed * slotStepMinutes.
C10_EndsAtLastSlotEnd ==
  bDone =>
    \A k \in DOMAIN bWindows :
      LET w == bWindows[k]
      IN /\ Len(w.slot_ids) = Needed
         /\ FromISO(w.start_time) = FromISO(BaseSlot(w.slot_ids[1]).start_time)
         /\ FromISO(w.end_time) = FromISO(BaseSlot(w.slot_ids[Len(w.slot_ids)]).end_time)
         /\ FromISO(w.end_time) - FromISO(w.start_time) = Needed * bParams.slotStepMinutes

\* C10 amended: every window has needed slot ids, starts at its first covered
\* slot's start and ends durationMinutes later; that is needed *
\* slotStepMinutes exactly when durationMinutes is a multiple of
\* slotStepMinutes.
C10_EndsAfterDuration ==
  bDone =>
    \A k \in DOMAIN bWindows :
      LET w == bWindows[k]
          span == FromISO(w.end_time) - FromISO(w.start_time)
      IN /\ Len(w.slot_ids) = Needed
         /\ FromISO(w.start_time) = FromISO(BaseSlot(w.slot_ids[1]).start_time)
         /\ span = bParams.durationMinutes
         /\ (span = Needed * bParams.slotStepMinutes)
              <=> (bParams.durationMinutes % bParams.slotStepMinutes = 0)

\* C10 witness: a window is emitted for a duration that is no multiple of the
\* step.
C10_Witness ==
  /\ bDone
  /\ Len(bWindows) > 0
  /\ bParams.durationMinutes % bParams.slotStepMinutes # 0

---------------------------------------------------------------------------
(* Properties of the two window algorithms *)

\* The local start and end of a window.
LocalStart(w) == ToLocal(FromISO(w.start_time))
LocalEnd(w) == ToLocal(FromISO(w.end_time))

\* C11: every window generateServiceSlotsDirectly returns, and every window
\* getServiceWindows returns, ends exactly duration_minutes after its start.
C11_WindowSpansDuration ==
  /\ gDone =>
       \A k \in DOMAIN gWindows :
         FromISO(gWindows[k].end_time) - FromISO(gWindows[k].start_time) = gParams.duration
  /\ \A c \in Callers :
       call[c].pc = "done" =>
         \A i \in DOMAIN call[c].slots :
           FromISO(call[c].slots[i].end_time) - FromISO(call[c].slots[i].start_time)
             = call[c].duration

\* C11 witness: windows are generated for a duration of 20 minutes, which is
\* no multiple of the slot step.
C11_Witness ==
  /\ gDone
  /\ gParams.duration = 20
  /\ Len(gWindows) >= 2

\* The window ends no later than closingTime on the local day of its start.
EndsByClosing(w, closingTime) ==
  LocalEnd(w) <= AtTimeOfDay(LocalDay(LocalStart(w)), closingTime)

\* C12: no window of buildServiceWindowsFromBaseSlots and none of
\* generateServiceSlotsDirectly ends, in local time, after closingTime on the
\* local calendar day of its start.
C12_NoWindowPastClosing ==
  /\ bDone => \A k \in DOMAIN bWindows : EndsByClosing(bWindows[k], bParams.closingTime)
  /\ gDone => \A k \in DOMAIN gWindows : EndsByClosing(gWindows[k], gParams.closingTime)

\* C12 witness: both algorithms have run on a rule that ends after the closing
\* time, and each has emitted a window that ends exactly at the closing time.
C12_Witness ==
  /\ bDone /\ gDone
  /\ Len(gParams.availabilities) > 0
  /\ gParams.availabilities[1].end_time > gParams.closingTime
  /\ \E k \in DOMAIN bWindows :
       LocalEnd(bWindows[k]) = AtTimeOfDay(LocalDay(LocalStart(bWindows[k])),
                                           bParams.closingTime)
  /\ \E k \in DOMAIN gWindows :
       LocalEnd(gWindows[k]) = AtTimeOfDay(LocalDay(LocalStart(gWindows[k])),
                                           gParams.closingTime)

\* now + minLeadMinutes of the builder's call: its whole minute (local) and
\* its seconds.
BuilderNowWithLead ==
  ToLocal(FromISO(bParams.now))
    + (IF bParams.minLeadMinutes = Absent THEN 0 ELSE bParams.minLeadMinutes)
BuilderNowSecond == SecondOf(bParams.now)

\* The instant (minute, second) rounded up to the next multiple of step
\* minutes since local midnight, as a whole minute.
RoundedUp(minute, second, step) ==
  LET sinceMidnight == MinutesSinceMidnight(minute) + (IF second > 0 THEN 1 ELSE 0)
  IN AtTimeOfDay(LocalDay(minute), Ceil(sinceMidnight, step) * step)

\* C13: no window of buildServiceWindowsFromBaseSlots starts before now +
\* minLeadMinutes; one that starts on the local day of now + minLeadMinutes
\* starts at or after that instant rounded up to the next multiple of
\* slotStepMinutes since local midnight; none starts on an earlier local day.
C13_NoWindowBeforeLeadTime ==
  bDone =>
    \A k \in DOMAIN bWindows :
      LET start == LocalStart(bWindows[k])
      IN /\ NotEarlier(start, BuilderNowWithLead, BuilderNowSecond)
         /\ LocalDay(start) >= LocalDay(BuilderNowWithLead)
         /\ LocalDay(start) = LocalDay(BuilderNowWithLead) =>
              start >= RoundedUp(BuilderNowWithLead, BuilderNowSecond,
                                 bParams.slotStepMinutes)

\* now + minLeadMinutes of the generator's call (local whole minute).
GeneratorNowWithLead == ToLocal(gParams.now) + gParams.minLeadMinutes

\* C14: generateServiceSlotsDirectly keeps a candidate exactly when the lead
\* time test of buildServiceWindowsFromBaseSlots keeps a window of the same
\* start for the same now, minLeadMinutes and slotStepMinutes: no returned
\* window is one the builder's test rejects, and for every start of a base
\* slot of the same rules the two tests agree.
C14_SameLeadTimePolicy ==
  gDone =>
    /\ \A k \in DOMAIN gWindows :
         ~LeadRejects(LocalStart(gWindows[k]), GeneratorNowWithLead,
                      gParams.nowSecond, bParams.slotStepMinutes)
    /\ \A i \in DOMAIN bParams.baseSlots :
         LET start == LocalStart(bParams.baseSlots[i])
         IN IsFuture(start, GeneratorNowWithLead, gParams.nowSecond)
              <=> ~LeadRejects(start, BuilderNowWithLead, BuilderNowSecond,
                               bParams.slotStepMinutes)

---------------------------------------------------------------------------
(* Properties of the id lookup *)

\* The rows read whose start_time parses to the instant of string st.
RowsAtInstantOf(rows, st) ==
  {i \in DOMAIN rows : FromISO(rows[i].start_time) # Invalid
                         /\ FromISO(rows[i].start_time) = FromISO(st)}

\* C15: a window and an available row that denote the same UTC instant are
\* matched whatever the serializations of the two timestamps: the window
\* takes the id of a row of its instant; a row whose start_time does not
\* parse is keyed by its raw string.
C15_SameInstantMatches ==
  mDone =>
    LET rows == mArgs.availableSlots
        same == RowsAtInstantOf(rows, mArgs.window.start_time)
    IN /\ same # {} =>
            /\ Len(mResult.window.slot_ids) = 1
            /\ \E i \in same : mResult.window.slot_ids[1] = rows[i].id
       /\ \A i \in DOMAIN rows :
            FromISO(rows[i].start_time) = Invalid =>
              /\ MapHas(mResult.realSlotIds, rows[i].start_time)
              /\ \E j \in DOMAIN rows :
                   /\ rows[j].start_time = rows[i].start_time
                   /\ MapGet(mResult.realSlotIds, rows[i].start_time) = rows[j].id

\* C15 witness: the lookup has matched a window written with '+00:00' and no
\* milliseconds to a row written with milliseconds and 'Z', next to a row
\* that does not parse.
C15_Witness ==
  /\ mDone
  /\ mArgs.window.start_time.f = "off"
  /\ Len(mArgs.availableSlots) = 2
  /\ mArgs.availableSlots[1].start_time = Str(mArgs.window.start_time.t, "msZ")
  /\ mArgs.availableSlots[2].start_time = Unparsable
  /\ mResult.window.slot_ids = <<mArgs.availableSlots[1].id>>

---------------------------------------------------------------------------
(* Properties of getAvailableSlots, of the validations and of the GET handler *)

\* C16 as stated: getAvailableSlots returns exactly the persisted available
\* rows of the professional in [from, to] when there is one, and otherwise
\* only slots with a 'virtual-' id.
C16_ReturnsPersistedRowsOrVirtual ==
  avail.pc = "done" =>
    LET persisted == {r \in slots : /\ r.professional_id = avail.params.professionalId
                                    /\ r.is_available
                                    /\ InRange(r, avail.params)}
    IN IF persisted # {}
       THEN Range(avail.data) = persisted /\ Len(avail.data) = Cardinality(persisted)
       ELSE \A i \in DOMAIN avail.data : StartsWithVirtual(avail.data[i].id)

\* What a finished getAvailableSlots has returned, given the rows that match
\* its filters: those rows in ascending start order, or only virtual slots.
ReturnedMatchingRowsOrVirtual ==
  avail.pc = "done" =>
    LET matching ==
          {r \in slots : /\ r.professional_id = avail.params.professionalId
                         /\ r.is_available
                         /\ InRange(r, avail.params)
                         /\ \/ avail.params.serviceId = NoService
                            \/ r.service_id = avail.params.serviceId
                            \/ r.service_id = NullService}
    IN IF matching # {}
       THEN /\ Range(avail.data) = matching
            /\ Len(avail.data) = Cardinality(matching)
            /\ \A i, j \in DOMAIN avail.data :
                 i < j => Instant(avail.data[i].start_time)
                            <= Instant(avail.data[j].start_time)
       ELSE \A i \in DOMAIN avail.data : StartsWithVirtual(avail.data[i].id)

\* C16 amended: getAvailableSlots returns, in ascending start order, exactly
\* the persisted available rows of the professional in [from, to] whose
\* service_id is the given serviceId or null (every such row without a
\* serviceId) when there is one, and otherwise only slots with a 'virtual-'
\* id; no step of it inserts or changes a row.
C16_ReturnsMatchingRowsOrVirtual ==
  /\ []ReturnedMatchingRowsOrVirtual
  /\ [][avail' # avail => (slots' = slots /\ nextId' = nextId)]_vars

\* C16 witness: getAvailableSlots called with serviceId s1 has returned one
\* persisted row while the table holds an available row of service s2 in
\* range.
C16_Witness ==
  /\ avail.pc = "done"
  /\ avail.params.serviceId = "s1"
  /\ Len(avail.data) = 1
  /\ ~StartsWithVirtual(avail.data[1].id)
  /\ \E r \in slots : /\ r.professional_id = avail.params.professionalId
                      /\ r.is_available
                      /\ InRange(r, avail.params)
                      /\ r.service_id = "s2"

\* The professional is of the company; the service exists; it has a duration.
ProfessionalOfCompany(pid, companyId) ==
  \E r \in ProfessionalsTable : r.id = pid /\ r.company_id = companyId
ServiceExists(sid, companyId) ==
  \E r \in ServicesTable : r.id = sid /\ r.company_id = companyId
ServiceHasDuration(sid, companyId) ==
  \E r \in ServicesTable :
    r.id = sid /\ r.company_id = companyId /\ r.duration_minutes # Absent

\* C17: getAvailableSlots and getServiceWindows return slots only when the
\* professional is of the company and the service named exists and has a
\* duration; in every other case they fail and return none.
C17_InvalidCallsFail ==
  /\ avail.pc = "done" =>
       /\ ProfessionalOfCompany(avail.params.professionalId, avail.params.companyId)
       /\ avail.params.serviceId # NoService =>
            /\ ServiceExists(avail.params.serviceId, avail.params.companyId)
            /\ ServiceHasDuration(avail.params.serviceId, avail.params.companyId)
  /\ avail.pc = "failed" => avail.data = << >>
  /\ \A c \in Callers :
       /\ call[c].pc = "done" =>
            /\ ProfessionalOfCompany(call[c].params.professionalId, call[c].params.companyId)
            /\ ServiceExists(call[c].params.serviceId, call[c].params.companyId)
            /\ ServiceHasDuration(call[c].params.serviceId, call[c].params.companyId)
       /\ call[c].pc = "failed" => call[c].slots = << >>

\* C18: the GET handler answers 404 when the professional is absent or of
\* another company, with or without a serviceId, and when the service is
\* absent, and 422 when the service has no duration.
C18_NotFoundAndUnprocessable ==
  (req.kind = "GET" /\ resp # NoResponse) =>
    IF ~ProfessionalOfCompany(req.professionalId, req.companyId)
    THEN resp.status = 404
    ELSE IF req.serviceId # NoService /\ ~ServiceExists(req.serviceId, req.companyId)
    THEN resp.status = 404
    ELSE IF req.serviceId # NoService /\ ~ServiceHasDuration(req.serviceId, req.companyId)
    THEN resp.status = 422
    ELSE resp.status = 200

---------------------------------------------------------------------------
(* The positional scan of buildServiceWindowsFromBaseSlots *)

\* The start positions (1-based, in start order) whose needed consecutive
\* slots pass the four checks.
ValidPositions ==
  LET sorted == SortByStart(bParams.baseSlots)
  IN {i \in 1..(Len(sorted) - Needed + 1) :
        LET start == ToLocal(FromISO(sorted[i].start_time))
        IN /\ \A j \in i..(i + Needed - 1) : sorted[j].is_available
           /\ \A j \in (i + 1)..(i + Needed - 1) :
                FromISO(sorted[j].start_time) - FromISO(sorted[j - 1].start_time)
                  = bParams.slotStepMinutes
           /\ ~LeadRejects(start, BuilderNowWithLead, BuilderNowSecond,
                           bParams.slotStepMinutes)
           /\ ~ClosingRejects(start, start + bParams.durationMinutes, bParams.closingTime)}

\* The k-th smallest element of a set of numbers.
KthOf(S, k) == CHOOSE x \in S : Cardinality({y \in S : y < x}) = k - 1

\* C20: buildServiceWindowsFromBaseSlots returns one window for each valid
\* start position of the start-sorted list, in position order, and no other;
\* the window's slot_ids are the ids of the needed slots from that position
\* on, in ascending start order.
C20_OneWindowPerValidPosition ==
  bDone =>
    LET sorted == SortByStart(bParams.baseSlots)
    IN /\ Len(bWindows) = Cardinality(ValidPositions)
       /\ \A k \in DOMAIN bWindows :
            LET i == KthOf(ValidPositions, k)
            IN /\ bWindows[k].slot_ids = [j \in 1..Needed |-> sorted[i + j - 1].id]
               /\ FromISO(bWindows[k].start_time) = FromISO(sorted[i].start_time)
               /\ \A j \in 2..Needed :
                    FromISO(BaseSlot(bWindows[k].slot_ids[j - 1]).start_time)
                      < FromISO(BaseSlot(bWindows[k].slot_ids[j]).start_time)

\* C20 witness: from three slots given out of start order, two overlapping
\* windows of two slots are returned, at positions 1 and 2.
C20_Witness ==
  /\ bDone
  /\ Needed = 2
  /\ Len(bParams.baseSlots) = 3
  /\ FromISO(bParams.baseSlots[1].start_time) > FromISO(bParams.baseSlots[2].start_time)
  /\ Len(bWindows) = 2
  /\ bWindows[1].slot_ids[2] = bWindows[2].slot_ids[1]

---------------------------------------------------------------------------
(* Properties of the materialization of virtual windows *)

CreatedInstants(c) ==
  {Instant(call[c].createdSlots[i].start_time) : i \in DOMAIN call[c].createdSlots}

\* C22: the existence query and the insert are not one atomic step: two
\* concurrent calls can both have inserted a row for the same
\* (professional_id, start instant), each having run its existence query
\* before the other's insert; that happens only without the unique
\* constraint, and the table then holds two rows for the pair.
C22_RacingInsertsLeaveTwoRows ==
  \A c, d \in Callers :
    (c # d /\ call[c].params.professionalId = call[d].params.professionalId) =>
      \A t \in CreatedInstants(c) \cap CreatedInstants(d) :
        /\ ~uniqueConstraint
        /\ \E r1, r2 \in slots :
             /\ r1.id # r2.id
             /\ r1.professional_id = call[c].params.professionalId
             /\ r2.professional_id = call[c].params.professionalId
             /\ Instant(r1.start_time) = t
             /\ Instant(r2.start_time) = t

\* C22 witness: without the unique constraint both calls have returned after
\* inserting a row for Monday 09:00, and the table holds two rows of p1 there.
C22_Witness ==
  /\ ~uniqueConstraint
  /\ call["c1"].pc = "done" /\ call["c2"].pc = "done"
  /\ W0 \in CreatedInstants("c1") \cap CreatedInstants("c2")
  /\ Cardinality(RowsAt(slots, "p1", Str(W0, "msZ"))) = 2

---------------------------------------------------------------------------
(* Properties of generateServiceSlotsDirectly *)

\* dayOfWeek (0 = Sunday .. 6 = Saturday) of local day d, which is a Sunday
\* when d is a multiple of 7.
WeekdayOf(d) == d % 7

\* The rules of the generator's call whose day_of_week is that of local day d.
RulesOfDay(d) ==
  {i \in DOMAIN gParams.availabilities :
     gParams.availabilities[i].day_of_week = WeekdayOf(d)}

\* The windows of the generator's call that start on local day d.
WindowsOfDay(d) == {k \in DOMAIN gWindows : LocalDay(LocalStart(gWindows[k])) = d}

\* C23: within one local day the windows of generateServiceSlotsDirectly do
\* not overlap and start at ruleStart + k * duration (k >= 0) for a rule of
\* that weekday, and the candidate k and all before it end by the closing
\* time of the day.
C23_WindowsOnDurationGrid ==
  gDone =>
    \A k \in DOMAIN gWindows :
      LET w == gWindows[k]
          d == LocalDay(LocalStart(w))
      IN /\ \E i \in RulesOfDay(d) :
              LET ruleStart == AtTimeOfDay(d, gParams.availabilities[i].start_time)
                  n == (LocalStart(w) - ruleStart) \div gParams.duration
              IN /\ LocalStart(w) >= ruleStart
                 /\ LocalStart(w) = ruleStart + n * gParams.duration
                 /\ \A m \in 0..n :
                      ruleStart + (m + 1) * gParams.duration
                        <= AtTimeOfDay(d, gParams.closingTime)
         /\ \A j \in WindowsOfDay(d) :
              j # k => \/ LocalEnd(gWindows[j]) <= LocalStart(w)
                       \/ LocalEnd(w) <= LocalStart(gWindows[j])

\* C23 witness: for a duration of 20 minutes, a rule 09:00-10:00 and a closing
\* time of 09:45 the generator has returned two windows, the second starting
\* where the first ends; the third candidate would end at 10:00.
C23_Witness ==
  /\ gDone
  /\ gParams.duration = 20
  /\ gParams.closingTime = HHmm(9, 45)
  /\ Len(gWindows) = 2
  /\ LocalStart(gWindows[1]) = AtTimeOfDay(1, HHmm(9, 0))
  /\ LocalStart(gWindows[2]) = LocalEnd(gWindows[1])

\* The local days from the day of from through the day of to.
DaysInRange ==
  LocalDay(ToLocal(FromISO(gParams.from)))..LocalDay(ToLocal(FromISO(gParams.to)))

\* The first rule, in list order, of the weekday of local day d (0 if none).
FirstRuleOfDay(d) ==
  IF RulesOfDay(d) = {} THEN 0
  ELSE CHOOSE i \in RulesOfDay(d) : \A j \in RulesOfDay(d) : i <= j

\* The local starts of the candidates of local day d that end by the closing
\* time, start in [from, to], pass the lead time and are not occupied.
KeptStartsOfDay(d) ==
  IF FirstRuleOfDay(d) = 0 THEN {}
  ELSE
    LET rule == gParams.availabilities[FirstRuleOfDay(d)]
        ruleStart == AtTimeOfDay(d, rule.start_time)
        ruleEnd == AtTimeOfDay(d, rule.end_time)
    IN {s \in {ruleStart + n * gParams.duration : n \in 0..(MinutesPerDay \div gParams.duration)} :
          /\ s < ruleEnd
          /\ s + gParams.duration <= AtTimeOfDay(d, gParams.closingTime)
          /\ FromISO(gParams.from) <= ToUTC(s)
          /\ ToUTC(s) <= FromISO(gParams.to)
          /\ IsFuture(s, GeneratorNowWithLead, gParams.nowSecond)
          /\ Str(ToUTC(s), "msZ") \notin gParams.occupiedStartTimes}

\* C24: generateServiceSlotsDirectly visits every local day from the day of
\* from through the day of to: on each of them, and on no other day, it
\* returns a window for every kept candidate; every returned window starts at
\* a UTC instant s with from <= s <= to.
C24_EveryDayOfRangeVisited ==
  gDone =>
    /\ \A d \in DaysInRange :
         {LocalStart(gWindows[k]) : k \in WindowsOfDay(d)} = KeptStartsOfDay(d)
    /\ \A k \in DOMAIN gWindows :
         /\ LocalDay(LocalStart(gWindows[k])) \in DaysInRange
         /\ FromISO(gParams.from) <= FromISO(gWindows[k].start_time)
         /\ FromISO(gWindows[k].start_time) <= FromISO(gParams.to)

\* C24 witness: for a range over three local days the generator has returned
\* a window that starts exactly at from, on the first day, and one that
\* starts exactly at to, on the last day.
C24_Witness ==
  /\ gDone
  /\ Cardinality(DaysInRange) = 3
  /\ \E j, k \in DOMAIN gWindows :
       /\ gWindows[j].start_time.t = FromISO(gParams.from)
       /\ gWindows[k].start_time.t = FromISO(gParams.to)
       /\ j # k

\* The local starts of the 15-minute slots of local day d in [from, to], for
\* the first rule of the day's weekday.
StepStartsOfDay(d) ==
  IF FirstRuleOfDay(d) = 0 THEN {}
  ELSE
    LET rule == gParams.availabilities[FirstRuleOfDay(d)]
        ruleStart == AtTimeOfDay(d, rule.start_time)
    IN {s \in {ruleStart + n * DefaultSlotStep : n \in 0..(MinutesPerDay \div DefaultSlotStep)} :
          /\ s < AtTimeOfDay(d, rule.end_time)
          /\ FromISO(gParams.from) <= ToUTC(s)
          /\ ToUTC(s) <= FromISO(gParams.to)}

\* The slots of generateSlotsFromAvailabilities that start on local day d.
SlotsOfLocalDay(d) == {k \in DOMAIN sSlots : LocalDay(LocalStart(sSlots[k])) = d}

\* C25: on each local day of the range both generators use the first rule, in
\* list order, whose day_of_week is the day's weekday with 0 = Sunday ..
\* 6 = Saturday: what they return on that day are the candidates of that
\* rule, none of a later rule of the same weekday, and nothing on a day
\* without a rule.
C25_FirstRuleOfWeekday ==
  /\ gDone =>
       \A d \in DaysInRange :
         /\ {LocalStart(gWindows[k]) : k \in WindowsOfDay(d)} = KeptStartsOfDay(d)
         /\ RulesOfDay(d) = {} => WindowsOfDay(d) = {}
  /\ sDone =>
       \A d \in DaysInRange :
         /\ {LocalStart(sSlots[k]) : k \in SlotsOfLocalDay(d)} = StepStartsOfDay(d)
         /\ RulesOfDay(d) = {} => SlotsOfLocalDay(d) = {}

\* C25 witness: with a Tuesday rule listed before a Sunday rule and none for
\* Monday, both generators have returned slots on Sunday and on Tuesday and
\* none on Monday.
C25_Witness ==
  /\ gDone /\ sDone
  /\ Len(gParams.availabilities) = 2
  /\ gParams.availabilities[2].day_of_week = 0
  /\ WindowsOfDay(0) # {} /\ WindowsOfDay(1) = {} /\ WindowsOfDay(2) # {}
  /\ SlotsOfLocalDay(0) # {} /\ SlotsOfLocalDay(1) = {} /\ SlotsOfLocalDay(2) # {}
  /\ 1 \in DaysInRange

\* C27: every window of generateServiceSlotsDirectly lies inside the local
\* interval of the rule used for its day: it starts at or after the rule's
\* start_time and ends at or before the rule's end_time.
C27_WindowInsideRule ==
  gDone =>
    \A k \in DOMAIN gWindows :
      LET w == gWindows[k]
          d == LocalDay(LocalStart(w))
      IN /\ FirstRuleOfDay(d) # 0
         /\ AtTimeOfDay(d, gParams.availabilities[FirstRuleOfDay(d)].start_time)
              <= LocalStart(w)
         /\ LocalEnd(w)
              <= AtTimeOfDay(d, gParams.availabilities[FirstRuleOfDay(d)].end_time)

---------------------------------------------------------------------------
(* Properties of the slots offered at booked times *)

\* C26: when getAvailableSlots has generated its slots because no available
\* row matched, none of them starts at the instant of a persisted row of the
\* professional with is_available = false.
C26_NoVirtualSlotOnBookedTime ==
  (avail.pc = "done" /\ SlotsQuery(slots, avail.params) = {}) =>
    \A i \in DOMAIN avail.data :
      \A r \in slots :
        (r.professional_id = avail.params.professionalId /\ ~r.is_available)
          => Instant(avail.data[i].start_time) # Instant(r.start_time)

\* C28: no window getServiceWindows returns carries, in its slot_ids, the id
\* of a persisted row with is_available = false.
C28_NoUnavailableRowId ==
  \A c \in Callers :
    call[c].pc = "done" =>
      \A i \in DOMAIN call[c].slots :
        \A j \in DOMAIN call[c].slots[i].slot_ids :
          \A r \in slots :
            r.id = call[c].slots[i].slot_ids[j] => r.is_available

---------------------------------------------------------------------------
(* The order of the builder's input *)

\* The base slots of the call in every order.
Reorderings(baseSlots) ==
  {[i \in DOMAIN baseSlots |-> baseSlots[f[i]]] : f \in Permutations(DOMAIN baseSlots)}

\* The starts of the base slots of the call are pairwise distinct.
DistinctStarts(baseSlots) ==
  \A i, j \in DOMAIN baseSlots :
    i # j => FromISO(baseSlots[i].start_time) # FromISO(baseSlots[j].start_time)

\* What the builder has returned is what it returns for every reordering of
\* base slots with distinct starts, and is in ascending start order.
SameForEveryOrder ==
  (bDone /\ DistinctStarts(bParams.baseSlots)) =>
    /\ \A q \in Reorderings(bParams.baseSlots) :
         BuildServiceWindowsFromBaseSlots([bParams EXCEPT !.baseSlots = q]) = bWindows
    /\ \A j, k \in DOMAIN bWindows :
         j < k => FromISO(bWindows[j].start_time) < FromISO(bWindows[k].start_time)

\* C29: for base slots with distinct start instants
\* buildServiceWindowsFromBaseSlots returns the same window list for every
\* order of baseSlots, in ascending start_time order, and it leaves the list
\* it was given as it was.
C29_InputOrderIrrelevant ==
  /\ []SameForEveryOrder
  /\ [][bDone' # bDone => bParams' = bParams]_vars

\* C29 witness: from three base slots given in descending start order the
\* builder has returned two windows.
C29_Witness ==
  /\ bDone
  /\ Len(bParams.baseSlots) = 3
  /\ FromISO(bParams.baseSlots[1].start_time) > FromISO(bParams.baseSlots[2].start_time)
  /\ FromISO(bParams.baseSlots[2].start_time) > FromISO(bParams.baseSlots[3].start_time)
  /\ Len(bWindows) = 2

---------------------------------------------------------------------------
(* The ids of one result *)

\* C30: the windows one getServiceWindows call returns have pairwise distinct
\* start instants and pairwise distinct first slot ids: no two of them carry
\* the id of the same persisted row, also when the table holds several rows
\* for one instant.
C30_DistinctWindowsAndIds ==
  \A c \in Callers :
    call[c].pc = "done" =>
      \A i, j \in DOMAIN call[c].slots :
        i # j =>
          /\ Instant(call[c].slots[i].start_time) # Instant(call[c].slots[j].start_time)
          /\ Len(call[c].slots[i].slot_ids) = 1
          /\ call[c].slots[i].slot_ids[1] # call[c].slots[j].slot_ids[1]

\* C30 witness: a call has returned two windows with persisted ids while the
\* table holds two rows of the professional at the start of one of them.
C30_Witness ==
  \E c \in Callers :
    /\ call[c].pc = "done"
    /\ Len(call[c].slots) = 2
    /\ ~IsVirtual(call[c].slots[1]) /\ ~IsVirtual(call[c].slots[2])
    /\ \E i \in DOMAIN call[c].slots :
         Cardinality(RowsAt(slots, call[c].params.professionalId,
                            call[c].slots[i].start_time)) = 2

=============================================================================
